---- MODULE Spec2Model ----
(***************************************************************************)
(* Model of src/main.py: timetable encoding (create_schedule_from_config), *)
(* the independent re-check (verifier_solution) and the room occupancy     *)
(* report (afficher_salles_libres).                                        *)
(*                                                                         *)
(* Python dicts are ordered: a dict is modelled as a sequence of           *)
(* <<key, value>> pairs with pairwise distinct keys, in insertion order.   *)
(* JSON lists are sequences.  A decision variable of the CP model is       *)
(* identified with its key of `assignments`.                               *)
(***************************************************************************)
EXTENDS Integers, Sequences, FiniteSets, TLC

VARIABLES
    config,             \* the loaded configuration (load_config)
    pc,                 \* position in the run: "start", "solving", "returned", "done", "crafted", "verified", "reported", "expand", "expanded"
    errors,             \* validate_config's result
    cours_a_planifier,  \* list of (groupe, matiere, cours_id)
    assignments,        \* keys of the assignments dict, in insertion order
    model,              \* constraints added to the CpModel, in order
    solver_called,      \* solver.Solve(model) was called
    status,             \* status returned by the solver
    valuation,          \* the variables the solver set to 1
    values_read,        \* solver.Value(var) was called
    diagnostic,         \* lines printed by the analysis of the infeasible path
    solution,           \* dict groupe -> list of (jour, heure, matiere, prof, salle)
    report,             \* what afficher_salles_libres computed
    verdict,            \* what verifier_solution printed and returned
    returned,           \* return value of create_schedule_from_config
    exported            \* __main__ called export_schedule_to_json

vars == <<config, pc, errors, cours_a_planifier, assignments, model, solver_called,
          status, valuation, values_read, diagnostic, solution, report, verdict, returned, exported>>

--------------------------------------------------------------------------
(* Bounds of the model *)

\* at most this many weekly occurrences of one subject in a curriculum
MaxNbCours == 1
\* at most this many course instances in a configuration that is encoded
MaxCours == 2
\* at most this many entries in a hand-made schedule
MaxEntries == 2

--------------------------------------------------------------------------
(* Python dict and list helpers *)

Elems(s) == {s[i] : i \in 1..Len(s)}

Keys(d) == [i \in 1..Len(d) |-> d[i][1]]

KeySet(d) == {d[i][1] : i \in 1..Len(d)}

Get(d, k) == d[CHOOSE i \in 1..Len(d) : d[i][1] = k][2]

RECURSIVE Concat(_)
Concat(ss) == IF Len(ss) = 0 THEN <<>> ELSE Head(ss) \o Concat(Tail(ss))

RECURSIVE SumSeq(_)
SumSeq(s) == IF Len(s) = 0 THEN 0 ELSE Head(s) + SumSeq(Tail(s))

--------------------------------------------------------------------------
(* generate_cours_from_config *)

\* for i in range(nb_cours): append (groupe_nom, matiere, cours_id); cours_id += 1
CoursOfMatiere(groupe_nom, matiere, nb_cours, cours_id) ==
    [i \in 1..nb_cours |-> <<groupe_nom, matiere, cours_id + (i - 1)>>]

\* for matiere, nb_cours in matieres_obligatoires.items()
RECURSIVE CoursOfGroupe(_, _, _, _)
CoursOfGroupe(groupe_nom, matieres_obligatoires, k, cours_id) ==
    IF k > Len(matieres_obligatoires) THEN <<>>
    ELSE LET matiere == matieres_obligatoires[k][1]
             nb_cours == matieres_obligatoires[k][2]
         IN  CoursOfMatiere(groupe_nom, matiere, nb_cours, cours_id)
             \o CoursOfGroupe(groupe_nom, matieres_obligatoires, k + 1, cours_id + nb_cours)

\* for groupe_info in config["groupes_eleves"]: if niveau in config["curriculum"]
RECURSIVE CoursOfGroupes(_, _, _)
CoursOfGroupes(cfg, g, cours_id) ==
    IF g > Len(cfg.groupes_eleves) THEN <<>>
    ELSE LET groupe_info == cfg.groupes_eleves[g]
             mine == IF groupe_info.niveau \in KeySet(cfg.curriculum)
                     THEN CoursOfGroupe(groupe_info.nom,
                                        Get(cfg.curriculum, groupe_info.niveau), 1, cours_id)
                     ELSE <<>>
         IN  mine \o CoursOfGroupes(cfg, g + 1, cours_id + Len(mine))

\* generate_cours_from_config numbering the courses from 1
generate_cours_from_one(cfg) == CoursOfGroupes(cfg, 1, 1)

generate_cours_from_config(cfg) == CoursOfGroupes(cfg, 1, 0)

--------------------------------------------------------------------------
(* validate_config *)

\* a teacher teaches a subject that is not defined
ErrMatiereInconnue(cfg) ==
    Concat([p \in 1..Len(cfg.professeurs) |->
        LET ens == cfg.professeurs[p][2].matieres_enseignees
        IN  Concat([m \in 1..Len(ens) |->
                IF ens[m] \notin KeySet(cfg.matieres)
                THEN <<[err |-> "matiere_inconnue", prof |-> cfg.professeurs[p][1], matiere |-> ens[m]]>>
                ELSE <<>>])])

profs_competents(cfg, matiere) ==
    {cfg.professeurs[p][1] : p \in {q \in 1..Len(cfg.professeurs) :
        matiere \in Elems(cfg.professeurs[q][2].matieres_enseignees)}}

\* a curriculum subject has no competent teacher
ErrSansProf(cfg) ==
    Concat([n \in 1..Len(cfg.curriculum) |->
        LET mo == cfg.curriculum[n][2]
        IN  Concat([k \in 1..Len(mo) |->
                IF profs_competents(cfg, mo[k][1]) = {}
                THEN <<[err |-> "aucun_professeur", niveau |-> cfg.curriculum[n][1], matiere |-> mo[k][1]]>>
                ELSE <<>>])])

types_salles_disponibles(cfg) == {cfg.salles[s][2].type : s \in 1..Len(cfg.salles)}

\* a defined subject requires a room type that no room has
ErrSansSalle(cfg) ==
    Concat([m \in 1..Len(cfg.matieres) |->
        IF cfg.matieres[m][2].salle_requise \notin types_salles_disponibles(cfg)
        THEN <<[err |-> "aucune_salle", matiere |-> cfg.matieres[m][1]]>>
        ELSE <<>>])

\* validate_config without the check of competent teachers
validate_config_sans_prof(cfg) == ErrMatiereInconnue(cfg) \o ErrSansSalle(cfg)

validate_config(cfg) == ErrMatiereInconnue(cfg) \o ErrSansProf(cfg) \o ErrSansSalle(cfg)

--------------------------------------------------------------------------
(* create_schedule_from_config: variables of the CP model (lines 94-146) *)

groupes_eleves(cfg) == [g \in 1..Len(cfg.groupes_eleves) |-> cfg.groupes_eleves[g].nom]

liste_salles(cfg) == Keys(cfg.salles)

liste_professeurs(cfg) == Keys(cfg.professeurs)

\* if matiere not in professeurs[prof]: continue
RuleCompetence(cfg, prof, matiere) ==
    matiere \in Elems(Get(cfg.professeurs, prof).matieres_enseignees)

\* if salles[salle]['type'] != type_salle_requis: continue
RuleSalle(cfg, salle, matiere) ==
    Get(cfg.salles, salle).type = Get(cfg.matieres, matiere).salle_requise

\* if jour in prof_info["contraintes"]["jours_indisponibles"]: continue
RuleJour(cfg, prof, jour) ==
    jour \notin Elems(Get(cfg.professeurs, prof).contraintes.jours_indisponibles)

\* RuleHeure testing the hour against the list of unavailable days
RuleHeureJours(cfg, prof, heure) ==
    heure \notin Elems(Get(cfg.professeurs, prof).contraintes.jours_indisponibles)

\* if heure in prof_info["contraintes"]["heures_indisponibles"]: continue
RuleHeure(cfg, prof, heure) ==
    heure \notin Elems(Get(cfg.professeurs, prof).contraintes.heures_indisponibles)

\* the keys created for one course, in the order of the nested loops
KeysOfCours(cfg, c) ==
    LET groupe == c[1]
        matiere == c[2]
        cours_id == c[3]
        jours == cfg.planning.jours
        heures == cfg.planning.heures
        LP == liste_professeurs(cfg)
        LS == liste_salles(cfg)
    IN  Concat([p \in 1..Len(LP) |->
          IF ~RuleCompetence(cfg, LP[p], matiere) THEN <<>>
          ELSE Concat([s \in 1..Len(LS) |->
            IF ~RuleSalle(cfg, LS[s], matiere) THEN <<>>
            ELSE Concat([j \in 1..Len(jours) |->
              IF ~RuleJour(cfg, LP[p], jours[j]) THEN <<>>
              ELSE Concat([h \in 1..Len(heures) |->
                IF ~RuleHeure(cfg, LP[p], heures[h]) THEN <<>>
                ELSE << <<groupe, matiere, cours_id, LP[p], LS[s], jours[j], heures[h]>> >>])])])])

\* key = (groupe, matiere, cours_id, prof, salle, jour, heure): key[1] .. key[7] here
BuildAssignments(cfg, cours) ==
    Concat([c \in 1..Len(cours) |-> KeysOfCours(cfg, cours[c])])

--------------------------------------------------------------------------
(* create_schedule_from_config: constraints (lines 153-184) *)

\* C1: model.AddExactlyOne(cours_vars), only if cours_vars
ConstraintsCours(a, cours) ==
    Concat([c \in 1..Len(cours) |->
        LET cours_vars == {k \in Elems(a) : k[3] = cours[c][3]}
        IN  IF cours_vars # {} THEN <<[type |-> "ExactlyOne", vars |-> cours_vars]>> ELSE <<>>])

\* the at-most-one constraints of one resource list: a constraint per (resource, jour, heure)
AtMostOnePerSlot(a, resources, cfg, field) ==
    LET jours == cfg.planning.jours
        heures == cfg.planning.heures
    IN  Concat([r \in 1..Len(resources) |->
          Concat([j \in 1..Len(jours) |->
            Concat([h \in 1..Len(heures) |->
              LET vs == {k \in Elems(a) : k[field] = resources[r] /\ k[6] = jours[j] /\ k[7] = heures[h]}
              IN  IF vs # {} THEN <<[type |-> "AtMostOne", vars |-> vs]>> ELSE <<>>])])])

\* C2: key[3] == prof and key[5] == jour and key[6] == heure
ConstraintsProf(a, cfg) == AtMostOnePerSlot(a, liste_professeurs(cfg), cfg, 4)

\* ConstraintsSalle comparing the room with the key's teacher field
ConstraintsSalleWrongField(a, cfg) == AtMostOnePerSlot(a, liste_salles(cfg), cfg, 4)

\* C3: key[4] == salle and key[5] == jour and key[6] == heure
ConstraintsSalle(a, cfg) == AtMostOnePerSlot(a, liste_salles(cfg), cfg, 5)

\* ConstraintsGroupe comparing the group with the key's subject field
ConstraintsGroupeWrongField(a, cfg) == AtMostOnePerSlot(a, groupes_eleves(cfg), cfg, 2)

\* C4: key[0] == groupe and key[5] == jour and key[6] == heure
ConstraintsGroupe(a, cfg) == AtMostOnePerSlot(a, groupes_eleves(cfg), cfg, 1)

BuildModel(a, cours, cfg) ==
    ConstraintsCours(a, cours) \o ConstraintsProf(a, cfg)
    \o ConstraintsSalle(a, cfg) \o ConstraintsGroupe(a, cfg)

--------------------------------------------------------------------------
(* solver.Solve(model): the valuations the CP-SAT solver may return *)

\* val is the set of variables whose value is 1
Satisfies(val, mdl) ==
    \A i \in 1..Len(mdl) :
        /\ mdl[i].type = "ExactlyOne" => Cardinality(mdl[i].vars \cap val) = 1
        /\ mdl[i].type = "AtMostOne" => Cardinality(mdl[i].vars \cap val) <= 1

AtMostOneHolds(val, mdl) ==
    \A i \in 1..Len(mdl) :
        mdl[i].type = "AtMostOne" => Cardinality(mdl[i].vars \cap val) <= 1

IsExactlyOne(c) == c.type = "ExactlyOne"

\* one true variable for each exactly-one constraint from the i-th on
RECURSIVE Picks(_, _, _, _)
Picks(eo, i, val, mdl) ==
    IF i > Len(eo) THEN {val}
    ELSE UNION {Picks(eo, i + 1, val \cup {v}, mdl) :
                    v \in {w \in eo[i].vars : AtMostOneHolds(val \cup {w}, mdl)}}

\* every valuation of the variables that satisfies every constraint of the model
Solutions(a, mdl) ==
    LET eo == SelectSeq(mdl, IsExactlyOne)
        free == Elems(a) \ UNION {eo[i].vars : i \in 1..Len(eo)}
    IN  {val \in UNION {{p \cup f : f \in SUBSET free} : p \in Picks(eo, 1, {}, mdl)} :
            Satisfies(val, mdl)}

\* what solver.Solve may return: a status and the variables set to 1.  A solution is
\* reported OPTIMAL or FEASIBLE; INFEASIBLE is reported only of a model that has no
\* solution; the time limit (max_time_in_seconds) may end any search with UNKNOWN.
SolverOutcomes(a, mdl) ==
    {<<st, val>> : st \in {"OPTIMAL", "FEASIBLE"}, val \in Solutions(a, mdl)}
    \cup (IF Solutions(a, mdl) = {} THEN {<<"INFEASIBLE", {}>>} ELSE {})
    \cup {<<"UNKNOWN", {}>>}

--------------------------------------------------------------------------
(* create_schedule_from_config: decoding (lines 221-226) *)

\* d[k].append(x) on a defaultdict(list)
DictAppend(d, k, x) ==
    IF k \in KeySet(d)
    THEN [i \in 1..Len(d) |-> IF d[i][1] = k THEN <<k, Append(d[i][2], x)>> ELSE d[i]]
    ELSE Append(d, <<k, <<x>> >>)

\* for key, var in assignments.items(): if solver.Value(var) == 1: solution[groupe].append(...)
RECURSIVE DecodeFrom(_, _, _, _)
DecodeFrom(a, val, i, sol) ==
    IF i > Len(a) THEN sol
    ELSE LET key == a[i]
         IN  DecodeFrom(a, val, i + 1,
                 IF key \in val
                 THEN DictAppend(sol, key[1], <<key[6], key[7], key[2], key[4], key[5]>>)
                 ELSE sol)

Decode(a, val) == DecodeFrom(a, val, 1, <<>>)

\* for groupe, cours_list in solution.items(): for jour, heure, matiere, prof, salle in cours_list
Entries(sol) ==
    Concat([g \in 1..Len(sol) |->
        [e \in 1..Len(sol[g][2]) |->
            [groupe |-> sol[g][1], jour |-> sol[g][2][e][1], heure |-> sol[g][2][e][2],
             matiere |-> sol[g][2][e][3], prof |-> sol[g][2][e][4], salle |-> sol[g][2][e][5]]]])

--------------------------------------------------------------------------
(* afficher_salles_libres *)

\* d[k].add(x) on a defaultdict(set)
DictAdd(d, k, x) ==
    IF k \in KeySet(d)
    THEN [i \in 1..Len(d) |-> IF d[i][1] = k THEN <<k, d[i][2] \cup {x}>> ELSE d[i]]
    ELSE Append(d, <<k, {x}>>)

RECURSIVE OccupeesFrom(_, _, _)
OccupeesFrom(es, i, d) ==
    IF i > Len(es) THEN d
    ELSE OccupeesFrom(es, i + 1, DictAdd(d, <<es[i].jour, es[i].heure>>, es[i].salle))

\* salles_occupees[(jour, heure)].add(salle), lines 258-261
salles_occupees(sol) == OccupeesFrom(Entries(sol), 1, <<>>)

\* salles_occupees.get(creneau, set())
OccupeesAt(so, creneau) == IF creneau \in KeySet(so) THEN Get(so, creneau) ELSE {}

\* the display loop over jours and heures, lines 264-271
ParCreneau(so, cfg) ==
    Concat([j \in 1..Len(cfg.planning.jours) |->
        [h \in 1..Len(cfg.planning.heures) |->
            LET creneau == <<cfg.planning.jours[j], cfg.planning.heures[h]>>
            IN  [creneau |-> creneau,
                 occupees |-> OccupeesAt(so, creneau),
                 libres |-> KeySet(cfg.salles) \ OccupeesAt(so, creneau)]]])

\* nb_occupations adding the number of rooms of the slot instead of 1
nb_occupations_len(so, salle) ==
    SumSeq([i \in 1..Len(so) |-> IF salle \in so[i][2] THEN Cardinality(so[i][2]) ELSE 0])

\* occupation_par_salle[salle] += 1 for every slot whose set holds salle, lines 330-333
nb_occupations(so, salle) ==
    SumSeq([i \in 1..Len(so) |-> IF salle \in so[i][2] THEN 1 ELSE 0])

\* taux = (n / total) * 100, kept as the fraction n * 100 / total
Taux(n, total) == [num |-> n * 100, den |-> total]

\* sum(len(salles_occ) for salles_occ in salles_occupees.values()), line 345
total_occupations(so) == SumSeq([i \in 1..Len(so) |-> Cardinality(so[i][2])])

\* occupation_par_creneau, line 350
occupation_par_creneau(so) == [i \in 1..Len(so) |-> <<so[i][1], Cardinality(so[i][2])>>]

\* Python max(items, key=lambda x: x[1]): the first item of greatest value
RECURSIVE PyMax(_, _, _)
PyMax(items, i, best) ==
    IF i > Len(items) THEN best
    ELSE PyMax(items, i + 1, IF items[i][2] > best[2] THEN items[i] ELSE best)

\* Python min(items, key=lambda x: x[1]): the first item of least value
RECURSIVE PyMin(_, _, _)
PyMin(items, i, best) ==
    IF i > Len(items) THEN best
    ELSE PyMin(items, i + 1, IF items[i][2] < best[2] THEN items[i] ELSE best)

\* <<>> when nothing is printed (occupation_par_creneau is empty)
creneau_max(so) ==
    LET opc == occupation_par_creneau(so)
    IN  IF Len(opc) = 0 THEN <<>> ELSE PyMax(opc, 2, opc[1])

creneau_min(so) ==
    LET opc == occupation_par_creneau(so)
    IN  IF Len(opc) = 0 THEN <<>> ELSE PyMin(opc, 2, opc[1])

afficher_salles_libres(sol, cfg) ==
    LET so == salles_occupees(sol)
        total_creneaux == Len(cfg.planning.jours) * Len(cfg.planning.heures)
        total_salles == Len(cfg.salles)
        total_creneaux_salles == total_creneaux * total_salles
    IN  [computed |-> TRUE,
         salles_occupees |-> so,
         creneaux |-> ParCreneau(so, cfg),
         total_creneaux |-> total_creneaux,
         total_salles |-> total_salles,
         total_creneaux_salles |-> total_creneaux_salles,
         occupation_par_salle |->
             [salle \in KeySet(cfg.salles) |->
                 [nb_occupations |-> nb_occupations(so, salle),
                  taux |-> Taux(nb_occupations(so, salle), total_creneaux)]],
         total_occupations |-> total_occupations(so),
         taux_global |-> Taux(total_occupations(so), total_creneaux_salles),
         creneau_max |-> creneau_max(so),
         creneau_min |-> creneau_min(so)]

--------------------------------------------------------------------------
(* verifier_solution *)

\* Test 1 and Test 2 for every entry, in the order of the loop (lines 380-389)
TestsParCours(es, cfg) ==
    Concat([i \in 1..Len(es) |->
        (IF es[i].matiere \notin Elems(Get(cfg.professeurs, es[i].prof).matieres_enseignees)
         THEN <<[err |-> "Competence", prof |-> es[i].prof, matiere |-> es[i].matiere]>>
         ELSE <<>>)
        \o
        (IF Get(cfg.salles, es[i].salle).type # Get(cfg.matieres, es[i].matiere).salle_requise
         THEN <<[err |-> "Salle", matiere |-> es[i].matiere,
                 salle_requise |-> Get(cfg.matieres, es[i].matiere).salle_requise,
                 salle |-> es[i].salle]>>
         ELSE <<>>)])

\* TestNombre reporting only courses that are missing
TestNombreManquants(cours_assignes, cours_planifies) ==
    IF cours_assignes < Len(cours_planifies)
    THEN <<[err |-> "Nombre", a_planifier |-> Len(cours_planifies), assignes |-> cours_assignes]>>
    ELSE <<>>

\* Test 3 (lines 392-394)
TestNombre(cours_assignes, cours_planifies) ==
    IF cours_assignes # Len(cours_planifies)
    THEN <<[err |-> "Nombre", a_planifier |-> Len(cours_planifies), assignes |-> cours_assignes]>>
    ELSE <<>>

\* the distinct elements of a list, in the order of their first occurrence
RECURSIVE Distinct(_, _, _)
Distinct(s, i, acc) ==
    IF i > Len(s) THEN acc
    ELSE Distinct(s, i + 1, IF s[i] \in Elems(acc) THEN acc ELSE Append(acc, s[i]))

Count(s, x) == Cardinality({i \in 1..Len(s) : s[i] = x})

\* conflits_prof / conflits_salle / conflits_groupe: resource -> list of timeslots (lines 376-378);
\* field is "prof", "salle" or "groupe"
Conflits(es, field) ==
    LET names == Distinct([i \in 1..Len(es) |-> es[i][field]], 1, <<>>)
    IN  [n \in 1..Len(names) |->
            <<names[n],
              LET mine == SelectSeq(es, LAMBDA e : e[field] = names[n])
              IN  [i \in 1..Len(mine) |-> <<mine[i].jour, mine[i].heure>>]>>]

\* IsConflict with the threshold off by one
IsConflictAboveTwo(count) == count > 2

\* if count > 1, line 405
IsConflict(count) == count > 1

\* Tests 4-6 for one dict of conflicts (lines 402-407)
TestConflits(conflicts_dict, resource_name) ==
    Concat([r \in 1..Len(conflicts_dict) |->
        LET slots == conflicts_dict[r][2]
            slot_counts == Distinct(slots, 1, <<>>)
        IN  Concat([s \in 1..Len(slot_counts) |->
                IF IsConflict(Count(slots, slot_counts[s]))
                THEN <<[err |-> "Conflit", resource_name |-> resource_name,
                        resource |-> conflicts_dict[r][1],
                        count |-> Count(slots, slot_counts[s]),
                        slot |-> slot_counts[s]]>>
                ELSE <<>>])])

\* the names a conflict line shows: f"{resource_name} '{resource}' a {count} cours simultanés à {slot}"
Mentions(msg) == {msg.resource, msg.slot[1], msg.slot[2]}


\* the error lines printed, in order; is_valid is False iff one was printed
verifier_solution(sol, cours_planifies, cfg) ==
    LET es == Entries(sol)
        cours_assignes == Len(es)
        printed == TestsParCours(es, cfg)
                   \o TestNombre(cours_assignes, cours_planifies)
                   \o TestConflits(Conflits(es, "prof"), "professeur")
                   \o TestConflits(Conflits(es, "salle"), "salle")
                   \o TestConflits(Conflits(es, "groupe"), "groupe")
    IN  [computed |-> TRUE,
         is_valid |-> Len(printed) = 0,
         printed |-> printed,
         cours_assignes |-> cours_assignes]

--------------------------------------------------------------------------
(* create_schedule_from_config: the analysis printed when no solution is found (lines 213-217) *)

Diagnostic(cours, cfg) ==
    {[matiere |-> m,
      cours_matiere |-> Cardinality({c \in 1..Len(cours) : cours[c][2] = m}),
      profs_competents |-> Cardinality({p \in KeySet(cfg.professeurs) :
                              m \in Elems(Get(cfg.professeurs, p).matieres_enseignees)}),
      salles_compatibles |-> Cardinality({s \in KeySet(cfg.salles) :
                              Get(cfg.salles, s).type = Get(cfg.matieres, m).salle_requise})]
     : m \in {cours[c][2] : c \in 1..Len(cours)}}

\* SolutionFound rejecting only the status INFEASIBLE
SolutionFoundUnlessInfeasible(st) == st # "INFEASIBLE"

\* status == cp_model.OPTIMAL / elif status == cp_model.FEASIBLE (lines 200-203)
SolutionFound(st) == st = "OPTIMAL" \/ st = "FEASIBLE"

\* the value None, and the value of a function that has not returned
None == [none |-> TRUE, value |-> <<>>]

\* if solution: (line 540; an empty dict is falsy)
Truthy(ret) == ~ret.none /\ Len(ret.value) > 0

--------------------------------------------------------------------------
(* The configurations explored *)

Professeur(ens, jours, heures) ==
    [matieres_enseignees |-> ens,
     contraintes |-> [jours_indisponibles |-> jours, heures_indisponibles |-> heures]]

MkConfig(p1_ens, p1_off, p2_ens, s2_type, info_salle, m2, a, b, niv2) ==
    [groupes_eleves |-> <<[nom |-> "G1", niveau |-> "N1"], [nom |-> "G2", niveau |-> niv2]>>,
     matieres |-> << <<"Math", [salle_requise |-> "standard"]>>,
                     <<"Info", [salle_requise |-> info_salle]>> >>,
     professeurs |-> << <<"P1", Professeur(p1_ens, p1_off[1], p1_off[2])>>,
                        <<"P2", Professeur(p2_ens, <<"Lun">>, <<>>)>> >>,
     salles |-> << <<"S1", [type |-> "standard"]>>, <<"S2", [type |-> s2_type]>> >>,
     curriculum |-> << <<"N1", << <<"Math", a>>, <<m2, b>> >> >> >>,
     planning |-> [jours |-> <<"Lun", "Mar">>, heures |-> <<"8h", "9h">>]]

\* (jours_indisponibles, heures_indisponibles) of the first teacher
Indisponibilites ==
    { << <<>>, <<>> >>, << <<"Mar">>, <<"9h">> >>,
      << <<"Lun", "Mar">>, <<>> >>, << <<>>, <<"8h", "9h">> >> }

Configs ==
    {cfg \in
        {MkConfig(p1_ens, p1_off, p2_ens, s2_type, info_salle, m2, a, b, niv2) :
            p1_ens \in {<<"Math">>, <<"Math", "Info">>},
            p1_off \in Indisponibilites,
            p2_ens \in {<<"Info">>, <<"Math", "Info">>, <<"Sport">>},
            s2_type \in {"standard", "computer_lab"},
            info_salle \in {"standard", "computer_lab"},
            m2 \in {"Info", "Sport"},
            a \in 0..MaxNbCours, b \in 0..MaxNbCours,
            niv2 \in {"N1", "N2"}} :
        Len(generate_cours_from_config(cfg)) <= MaxCours}

--------------------------------------------------------------------------
(* The run of __main__: create_schedule_from_config, then the export *)

Init ==
    /\ config \in Configs
    /\ pc = "start"
    /\ errors = <<>>
    /\ cours_a_planifier = <<>>
    /\ assignments = <<>>
    /\ model = <<>>
    /\ solver_called = FALSE
    /\ status = "none"
    /\ valuation = {}
    /\ values_read = FALSE
    /\ diagnostic = {}
    /\ solution = <<>>
    /\ report = [computed |-> FALSE]
    /\ verdict = [computed |-> FALSE]
    /\ returned = None
    /\ exported = FALSE

\* lines 83-88: the configuration has errors, nothing is built
RejectConfig ==
    /\ pc = "start"
    /\ validate_config(config) # <<>>
    /\ errors' = validate_config(config)
    /\ returned' = None
    /\ pc' = "returned"
    /\ UNCHANGED <<config, cours_a_planifier, assignments, model, solver_called, status,
                   valuation, values_read, diagnostic, solution, report, verdict, exported>>

\* lines 83-195: the configuration is valid; the model is built and the solver called
Encode ==
    /\ pc = "start"
    /\ validate_config(config) = <<>>
    /\ LET cours == generate_cours_from_config(config)
           a == BuildAssignments(config, cours)
       IN  /\ cours_a_planifier' = cours
           /\ assignments' = a
           /\ model' = BuildModel(a, cours, config)
    /\ solver_called' = TRUE
    /\ pc' = "solving"
    /\ UNCHANGED <<config, errors, status, valuation, values_read, diagnostic, solution,
                   report, verdict, returned, exported>>

\* lines 195-243: the solver found a valuation; decode, report, verify, return the solution
Solved ==
    /\ pc = "solving"
    /\ \E out \in SolverOutcomes(assignments, model) :
        /\ SolutionFound(out[1])
        /\ status' = out[1]
        /\ valuation' = out[2]
        /\ values_read' = TRUE
        /\ solution' = Decode(assignments, out[2])
        /\ report' = afficher_salles_libres(Decode(assignments, out[2]), config)
        /\ verdict' = verifier_solution(Decode(assignments, out[2]), cours_a_planifier, config)
        /\ returned' = [none |-> FALSE, value |-> Decode(assignments, out[2])]
    /\ pc' = "returned"
    /\ UNCHANGED <<config, errors, cours_a_planifier, assignments, model, solver_called,
                   diagnostic, exported>>

\* lines 195-219: no solution was found; print the analysis and return None
NotSolved ==
    /\ pc = "solving"
    /\ \E out \in SolverOutcomes(assignments, model) :
        /\ ~SolutionFound(out[1])
        /\ status' = out[1]
        /\ valuation' = out[2]
    /\ diagnostic' = Diagnostic(cours_a_planifier, config)
    /\ returned' = None
    /\ pc' = "returned"
    /\ UNCHANGED <<config, errors, cours_a_planifier, assignments, model, solver_called,
                   values_read, solution, report, verdict, exported>>

\* lines 537-542: export only a truthy result
Main ==
    /\ pc = "returned"
    /\ exported' = Truthy(returned)
    /\ pc' = "done"
    /\ UNCHANGED <<config, errors, cours_a_planifier, assignments, model, solver_called,
                   status, valuation, values_read, diagnostic, solution, report, verdict,
                   returned>>

Next == RejectConfig \/ Encode \/ Solved \/ NotSolved \/ Main

Spec == Init /\ [][Next]_vars

--------------------------------------------------------------------------
(* verifier_solution and afficher_salles_libres on a schedule of any origin *)

CheckConfig ==
    [MkConfig(<<"Math">>, << <<>>, <<>> >>, <<"Math", "Info">>,
              "computer_lab", "computer_lab", "Info", 1, 1, "N1")
        EXCEPT !.planning = [jours |-> <<"Lun", "Mar", "Mer">>, heures |-> <<"8h">>]]

\* every (groupe, entry) over the groups, slots, subjects, teachers and rooms of the configuration
EntryUniverse(cfg) ==
    {<<g, <<j, h, m, p, s>> >> :
        g \in Elems(groupes_eleves(cfg)),
        j \in Elems(cfg.planning.jours), h \in Elems(cfg.planning.heures),
        m \in KeySet(cfg.matieres), p \in KeySet(cfg.professeurs), s \in KeySet(cfg.salles)}

\* the dict groupe -> list built by appending the pairs in order
RECURSIVE ToDict(_, _, _)
ToDict(pairs, i, d) ==
    IF i > Len(pairs) THEN d
    ELSE ToDict(pairs, i + 1, DictAppend(d, pairs[i][1], pairs[i][2]))

InitCheck ==
    /\ config = CheckConfig
    /\ pc = "crafted"
    /\ errors = <<>>
    /\ cours_a_planifier = <<>>
    /\ assignments = <<>>
    /\ model = <<>>
    /\ solver_called = FALSE
    /\ status = "none"
    /\ valuation = {}
    /\ values_read = FALSE
    /\ diagnostic = {}
    /\ \E n \in 0..MaxEntries :
        \E pairs \in [1..n -> EntryUniverse(CheckConfig)] :
            solution = ToDict(pairs, 1, <<>>)
    /\ report = [computed |-> FALSE]
    /\ verdict = [computed |-> FALSE]
    /\ returned = None
    /\ exported = FALSE

\* verifier_solution(solution, cours_planifies, ...) with a list of n courses to plan
Verify ==
    /\ pc = "crafted"
    /\ \E n \in 0..MaxEntries :
        LET cours_planifies == [i \in 1..n |-> <<"G1", "Math", i - 1>>]
        IN  /\ cours_a_planifier' = cours_planifies
            /\ verdict' = verifier_solution(solution, cours_planifies, config)
    /\ pc' = "verified"
    /\ UNCHANGED <<config, errors, assignments, model, solver_called, status, valuation,
                   values_read, diagnostic, solution, report, returned, exported>>

\* afficher_salles_libres(solution, config)
Report ==
    /\ pc = "crafted"
    /\ report' = afficher_salles_libres(solution, config)
    /\ pc' = "reported"
    /\ UNCHANGED <<config, errors, cours_a_planifier, assignments, model, solver_called,
                   status, valuation, values_read, diagnostic, solution, verdict, returned,
                   exported>>

NextCheck == Verify \/ Report

SpecCheck == InitCheck /\ [][NextCheck]_vars

--------------------------------------------------------------------------
(* Properties of create_schedule_from_config *)

Finished == pc \in {"returned", "done"}

\* the courses of cours_a_planifier that have no key in assignments
SansCandidat ==
    {c \in 1..Len(cours_a_planifier) :
        ~\E i \in 1..Len(assignments) : assignments[i][3] = cours_a_planifier[c][3]}

\* C1: if some course of cours_a_planifier has no key in assignments after filtering,
\* the encoding stops with an error: the solver is never called.
C1_NoCandidateStopsEncoding ==
    SansCandidat # {} => ~solver_called /\ pc # "solving"

\* C2: when the solver reports a solution (OPTIMAL or FEASIBLE) of a validated
\* configuration, the decoded schedule has exactly len(cours_a_planifier) entries and
\* every cours_id has exactly one variable set to 1.
C2_Coverage ==
    (Finished /\ status \in {"OPTIMAL", "FEASIBLE"}) =>
        /\ SumSeq([g \in 1..Len(solution) |-> Len(solution[g][2])]) = Len(cours_a_planifier)
        /\ \A c \in 1..Len(cours_a_planifier) :
              Cardinality({k \in valuation : k[3] = cours_a_planifier[c][3]}) = 1

\* witness of C1's case: a validated configuration with a course that has no candidate
C1_Case == pc = "solving" /\ SansCandidat # {}

\* the positions (group index, entry index) of the entries of the schedule
Positions == UNION {{<<g, e>> : e \in 1..Len(solution[g][2])} : g \in 1..Len(solution)}

GroupeAt(pos) == solution[pos[1]][1]
JourAt(pos) == solution[pos[1]][2][pos[2]][1]
HeureAt(pos) == solution[pos[1]][2][pos[2]][2]
MatiereAt(pos) == solution[pos[1]][2][pos[2]][3]
ProfAt(pos) == solution[pos[1]][2][pos[2]][4]
SalleAt(pos) == solution[pos[1]][2][pos[2]][5]
SameSlot(x, y) == JourAt(x) = JourAt(y) /\ HeureAt(x) = HeureAt(y)

\* C3: in the schedule decoded from a valuation that satisfies the constraints, no two
\* entries share a teacher and a slot, a room and a slot, or a group and a slot.
C3_NoDoubleBooking ==
    (Finished /\ status \in {"OPTIMAL", "FEASIBLE"}) =>
        \A x \in Positions, y \in Positions :
            (x # y /\ SameSlot(x, y)) =>
                /\ ProfAt(x) # ProfAt(y)
                /\ SalleAt(x) # SalleAt(y)
                /\ GroupeAt(x) # GroupeAt(y)

\* two courses were scheduled in the same slot (with other teachers, rooms and groups)
C3_Witness ==
    /\ Finished /\ status \in {"OPTIMAL", "FEASIBLE"}
    /\ \E x \in Positions, y \in Positions : x # y /\ SameSlot(x, y)

\* C4: every key of assignments satisfies the four rules: the subject is in the
\* teacher's matieres_enseignees, the room's type is the subject's salle_requise, the
\* day is not in the teacher's jours_indisponibles and the hour is not in the teacher's
\* heures_indisponibles.
C4_FilterSound ==
    \A i \in 1..Len(assignments) :
        LET key == assignments[i]
            prof_info == config.professeurs[CHOOSE p \in 1..Len(config.professeurs) :
                                                config.professeurs[p][1] = key[4]][2]
            salle_info == config.salles[CHOOSE r \in 1..Len(config.salles) :
                                            config.salles[r][1] = key[5]][2]
            matiere_info == config.matieres[CHOOSE m \in 1..Len(config.matieres) :
                                                config.matieres[m][1] = key[2]][2]
        IN  /\ \E m \in 1..Len(prof_info.matieres_enseignees) :
                    prof_info.matieres_enseignees[m] = key[2]
            /\ salle_info.type = matiere_info.salle_requise
            /\ \A j \in 1..Len(prof_info.contraintes.jours_indisponibles) :
                    prof_info.contraintes.jours_indisponibles[j] # key[6]
            /\ \A h \in 1..Len(prof_info.contraintes.heures_indisponibles) :
                    prof_info.contraintes.heures_indisponibles[h] # key[7]

\* variables were created, and each of the four rules excluded some tuple of a course
C4_Witness ==
    /\ Len(assignments) > 0
    /\ \E c \in 1..Len(cours_a_planifier), p \in 1..Len(config.professeurs),
          r \in 1..Len(config.salles) :
        LET matiere == cours_a_planifier[c][2]
            info == config.professeurs[p][2]
        IN  /\ matiere \notin Elems(info.matieres_enseignees)
            /\ config.salles[r][2].type # Get(config.matieres, matiere).salle_requise
    /\ \E p \in 1..Len(config.professeurs) :
        /\ config.professeurs[p][2].contraintes.jours_indisponibles # <<>>
        /\ \E i \in 1..Len(assignments) : assignments[i][4] = config.professeurs[p][1]
    /\ \E p \in 1..Len(config.professeurs) :
        /\ config.professeurs[p][2].contraintes.heures_indisponibles # <<>>
        /\ \E i \in 1..Len(assignments) : assignments[i][4] = config.professeurs[p][1]

\* C7: when the solver's status is neither OPTIMAL nor FEASIBLE, the run prints the
\* analysis per subject of cours_a_planifier (number of courses, of competent teachers,
\* of compatible rooms), reads no variable value, decodes no schedule, runs neither the
\* occupancy report nor the verifier, returns None, and nothing is exported.
C7_NoSolutionPath ==
    (Finished /\ solver_called /\ status \notin {"OPTIMAL", "FEASIBLE"}) =>
        /\ \A c \in 1..Len(cours_a_planifier) :
            \E d \in diagnostic :
                /\ d.matiere = cours_a_planifier[c][2]
                /\ d.cours_matiere =
                      Cardinality({k \in 1..Len(cours_a_planifier) :
                                      cours_a_planifier[k][2] = d.matiere})
                /\ d.profs_competents =
                      Cardinality({p \in 1..Len(config.professeurs) :
                          \E m \in 1..Len(config.professeurs[p][2].matieres_enseignees) :
                              config.professeurs[p][2].matieres_enseignees[m] = d.matiere})
                /\ d.salles_compatibles =
                      Cardinality({r \in 1..Len(config.salles) :
                          \E m \in 1..Len(config.matieres) :
                              /\ config.matieres[m][1] = d.matiere
                              /\ config.matieres[m][2].salle_requise = config.salles[r][2].type})
        /\ Cardinality(diagnostic) = Cardinality({cours_a_planifier[c][2] : c \in 1..Len(cours_a_planifier)})
        /\ ~values_read
        /\ solution = <<>>
        /\ ~report.computed
        /\ ~verdict.computed
        /\ returned.none
        /\ ~exported

\* the run ended without a solution for a configuration that has courses to plan
C7_Witness ==
    /\ pc = "done" /\ solver_called
    /\ status \in {"INFEASIBLE", "UNKNOWN"}
    /\ Len(cours_a_planifier) > 0

\* every subject of every curriculum is defined, has a competent teacher and a room
ConfigCoherent(cfg) ==
    \A n \in 1..Len(cfg.curriculum) :
        \A k \in 1..Len(cfg.curriculum[n][2]) :
            LET matiere == cfg.curriculum[n][2][k][1]
            IN  /\ \E m \in 1..Len(cfg.matieres) :
                    /\ cfg.matieres[m][1] = matiere
                    /\ \E r \in 1..Len(cfg.salles) :
                          cfg.salles[r][2].type = cfg.matieres[m][2].salle_requise
                /\ \E p \in 1..Len(cfg.professeurs) :
                    \E m \in 1..Len(cfg.professeurs[p][2].matieres_enseignees) :
                        cfg.professeurs[p][2].matieres_enseignees[m] = matiere

\* C8: the model is built and the solver called only if validate_config returned no
\* error; and when validate_config returns no error, every subject of every grade level's
\* matieres_obligatoires is defined, has a competent teacher and a room of its type.
C8_ValidationGate ==
    /\ (solver_called \/ pc = "solving" \/ Len(model) > 0 \/ Len(assignments) > 0)
          => (errors = <<>> /\ ConfigCoherent(config))
    /\ (pc # "start" /\ errors = <<>>) => solver_called
    /\ validate_config(config) = <<>> => ConfigCoherent(config)
    /\ errors # <<>> => (~solver_called /\ model = <<>>)

\* the solver was called for a configuration with courses, and variables were created
C8_Witness == pc = "solving" /\ solver_called /\ Len(assignments) > 0

--------------------------------------------------------------------------
(* Properties of verifier_solution *)

Competent(x) ==
    \E p \in 1..Len(config.professeurs) :
        /\ config.professeurs[p][1] = ProfAt(x)
        /\ \E m \in 1..Len(config.professeurs[p][2].matieres_enseignees) :
              config.professeurs[p][2].matieres_enseignees[m] = MatiereAt(x)

RoomFits(x) ==
    \E r \in 1..Len(config.salles), m \in 1..Len(config.matieres) :
        /\ config.salles[r][1] = SalleAt(x)
        /\ config.matieres[m][1] = MatiereAt(x)
        /\ config.salles[r][2].type = config.matieres[m][2].salle_requise

Clash(x, y) ==
    /\ x # y
    /\ SameSlot(x, y)
    /\ (ProfAt(x) = ProfAt(y) \/ SalleAt(x) = SalleAt(y) \/ GroupeAt(x) = GroupeAt(y))

\* a conflict line for this kind of resource, this resource and the slot of entry x
ConflictLine(i, kind, resource, x) ==
    /\ verdict.printed[i].err = "Conflit"
    /\ verdict.printed[i].resource_name = kind
    /\ verdict.printed[i].resource = resource
    /\ verdict.printed[i].slot = <<JourAt(x), HeureAt(x)>>

\* C5: verifier_solution returns True iff every entry's teacher is competent in its
\* subject, every entry's room has the type its subject requires, the number of
\* entries is len(cours_planifies) and no (teacher, slot), (room, slot) or (group, slot)
\* is shared by two entries; and every failed check is reported, whatever else failed.
C5_VerifierCorrect ==
    pc = "verified" =>
        /\ verdict.is_valid <=>
              /\ \A x \in Positions : Competent(x) /\ RoomFits(x)
              /\ Cardinality(Positions) = Len(cours_a_planifier)
              /\ \A x \in Positions, y \in Positions : ~Clash(x, y)
        /\ \A x \in Positions :
              ~Competent(x) =>
                  \E i \in 1..Len(verdict.printed) :
                      /\ verdict.printed[i].err = "Competence"
                      /\ verdict.printed[i].prof = ProfAt(x)
                      /\ verdict.printed[i].matiere = MatiereAt(x)
        /\ \A x \in Positions :
              ~RoomFits(x) =>
                  \E i \in 1..Len(verdict.printed) :
                      /\ verdict.printed[i].err = "Salle"
                      /\ verdict.printed[i].salle = SalleAt(x)
                      /\ verdict.printed[i].matiere = MatiereAt(x)
        /\ Cardinality(Positions) # Len(cours_a_planifier) =>
              \E i \in 1..Len(verdict.printed) :
                  /\ verdict.printed[i].err = "Nombre"
                  /\ verdict.printed[i].assignes = Cardinality(Positions)
                  /\ verdict.printed[i].a_planifier = Len(cours_a_planifier)
        /\ \A x \in Positions, y \in Positions :
              (x # y /\ SameSlot(x, y)) =>
                  /\ ProfAt(x) = ProfAt(y) =>
                        \E i \in 1..Len(verdict.printed) : ConflictLine(i, "professeur", ProfAt(x), x)
                  /\ SalleAt(x) = SalleAt(y) =>
                        \E i \in 1..Len(verdict.printed) : ConflictLine(i, "salle", SalleAt(x), x)
                  /\ GroupeAt(x) = GroupeAt(y) =>
                        \E i \in 1..Len(verdict.printed) : ConflictLine(i, "groupe", GroupeAt(x), x)

\* a schedule failing two different checks at once, both reported
C5_Witness ==
    /\ pc = "verified"
    /\ ~verdict.is_valid
    /\ \E i \in 1..Len(verdict.printed) : verdict.printed[i].err = "Competence"
    /\ \E i \in 1..Len(verdict.printed) : verdict.printed[i].err = "Conflit"
    /\ \E i \in 1..Len(verdict.printed) : verdict.printed[i].err = "Nombre"

\* the entries in room salle at the slot of entry x
InRoomAt(salle, x) == {y \in Positions : SalleAt(y) = salle /\ SameSlot(x, y)}

RoomLines(x) == {i \in 1..Len(verdict.printed) : ConflictLine(i, "salle", SalleAt(x), x)}

--------------------------------------------------------------------------
(* Properties of afficher_salles_libres *)

\* the (room, slot) pairs that some entry of the schedule occupies
OccupiedPairs == {<<SalleAt(x), JourAt(x), HeureAt(x)>> : x \in Positions}

InUnit(taux) == taux.den > 0 /\ 0 <= taux.num /\ taux.num <= 100 * taux.den

Rooms == {config.salles[r][1] : r \in 1..Len(config.salles)}

RECURSIVE SumOver(_, _)
SumOver(f, S) ==
    IF S = {} THEN 0 ELSE LET a == CHOOSE a \in S : TRUE IN f[a] + SumOver(f, S \ {a})

\* C9: each room's number of occupied slots is between 0 and len(jours) * len(heures)
\* (rate in [0, 100]); the total of occupied (room, slot) pairs is between 0 and
\* len(salles) * len(jours) * len(heures) (global rate in [0, 100]); the sum over the
\* slots of the numbers of occupied rooms equals the sum over the rooms of the numbers
\* of occupied slots, which is the number of occupied (room, slot) pairs.
C9_OccupancyBounds ==
    pc = "reported" =>
        LET slots == Len(config.planning.jours) * Len(config.planning.heures)
            perRoom == [s \in Rooms |-> report.occupation_par_salle[s].nb_occupations]
            perSlot == [i \in 1..Len(report.creneaux) |-> Cardinality(report.creneaux[i].occupees)]
        IN  /\ \A s \in Rooms :
                /\ 0 <= perRoom[s] /\ perRoom[s] <= slots
                /\ InUnit(report.occupation_par_salle[s].taux)
                /\ perRoom[s] = Cardinality({pr \in OccupiedPairs : pr[1] = s})
            /\ 0 <= report.total_occupations
            /\ report.total_occupations <= Len(config.salles) * slots
            /\ InUnit(report.taux_global)
            /\ SumSeq(perSlot) = report.total_occupations
            /\ SumOver(perRoom, Rooms) = report.total_occupations
            /\ report.total_occupations = Cardinality(OccupiedPairs)

\* two entries in one room at one slot, which count as one occupied (room, slot) pair
C9_Witness ==
    /\ pc = "reported"
    /\ \E x \in Positions, y \in Positions :
        x # y /\ SameSlot(x, y) /\ SalleAt(x) = SalleAt(y)
    /\ report.total_occupations = 1

GridSlots ==
    {<<config.planning.jours[j], config.planning.heures[h]>> :
        j \in 1..Len(config.planning.jours), h \in 1..Len(config.planning.heures)}

RoomsAt(slot) == {pr[1] : pr \in {q \in OccupiedPairs : q[2] = slot[1] /\ q[3] = slot[2]}}

\* C10: the slot reported least occupied has the least number of occupied rooms among
\* all the slots of jours x heures, those without any occupied room included, and the
\* slot reported most occupied has the greatest.
C10_LeastAndMostOccupied ==
    (pc = "reported" /\ report.creneau_min # <<>>) =>
        /\ report.creneau_min[2] = Cardinality(RoomsAt(report.creneau_min[1]))
        /\ report.creneau_max[2] = Cardinality(RoomsAt(report.creneau_max[1]))
        /\ \A slot \in GridSlots :
            /\ report.creneau_min[2] <= Cardinality(RoomsAt(slot))
            /\ report.creneau_max[2] >= Cardinality(RoomsAt(slot))

\* the rank of a slot in the iteration over jours, then heures
SlotRank(slot) ==
    LET j == CHOOSE a \in 1..Len(config.planning.jours) : config.planning.jours[a] = slot[1]
        h == CHOOSE b \in 1..Len(config.planning.heures) : config.planning.heures[b] = slot[2]
    IN  (j - 1) * Len(config.planning.heures) + h

\* C11: among the slots that have as many occupied rooms as the slot reported most
\* (resp. least) occupied, the reported slot is the first in the order of jours, then
\* heures, whatever the order of the groups and of the entries in the schedule.
C11_TieBreakByGridOrder ==
    (pc = "reported" /\ report.creneau_max # <<>>) =>
        \A slot \in GridSlots :
            /\ Cardinality(RoomsAt(slot)) = report.creneau_max[2] =>
                  SlotRank(report.creneau_max[1]) <= SlotRank(slot)
            /\ Cardinality(RoomsAt(slot)) = report.creneau_min[2] =>
                  SlotRank(report.creneau_min[1]) <= SlotRank(slot)

--------------------------------------------------------------------------
(* generate_cours_from_config on groups and curricula of any shape *)

\* the lists of groups: one or two groups, in either order, each of any grade level,
\* of which N3 has no curriculum
GroupLists ==
    {<<[nom |-> "G1", niveau |-> n]>> : n \in {"N1", "N2", "N3"}}
    \cup {<<[nom |-> g[1], niveau |-> n1], [nom |-> g[2], niveau |-> n2]>> :
            g \in {<<"G1", "G2">>, <<"G2", "G1">>},
            n1 \in {"N1", "N2", "N3"}, n2 \in {"N1", "N2", "N3"}}

\* two grade levels that list the subjects in different orders
Curricula ==
    {<< <<"N1", << <<"Math", a>>, <<"Info", b>> >> >>,
        <<"N2", << <<"Info", c>>, <<"Math", d>> >> >> >> :
        a \in 0..MaxNbCours, b \in 0..MaxNbCours, c \in 0..MaxNbCours, d \in 0..MaxNbCours}

InitGen ==
    /\ \E gl \in GroupLists, cu \in Curricula :
        config = [CheckConfig EXCEPT !.groupes_eleves = gl, !.curriculum = cu]
    /\ pc = "expand"
    /\ errors = <<>>
    /\ cours_a_planifier = <<>>
    /\ assignments = <<>>
    /\ model = <<>>
    /\ solver_called = FALSE
    /\ status = "none"
    /\ valuation = {}
    /\ values_read = FALSE
    /\ diagnostic = {}
    /\ solution = <<>>
    /\ report = [computed |-> FALSE]
    /\ verdict = [computed |-> FALSE]
    /\ returned = None
    /\ exported = FALSE

\* cours_a_planifier = generate_cours_from_config(config)
Generate ==
    /\ pc = "expand"
    /\ cours_a_planifier' = generate_cours_from_config(config)
    /\ pc' = "expanded"
    /\ UNCHANGED <<config, errors, assignments, model, solver_called, status, valuation,
                   values_read, diagnostic, solution, report, verdict, returned, exported>>

NextGen == Generate

SpecGen == InitGen /\ [][NextGen]_vars

--------------------------------------------------------------------------
(* Properties of generate_cours_from_config *)

\* the rank of a group in groupes_eleves
GroupRank(nom) ==
    CHOOSE g \in 1..Len(config.groupes_eleves) : config.groupes_eleves[g].nom = nom

\* the curriculum entry of a grade level: 0 when the level has none
LevelRank(niveau) ==
    IF \E n \in 1..Len(config.curriculum) : config.curriculum[n][1] = niveau
    THEN CHOOSE n \in 1..Len(config.curriculum) : config.curriculum[n][1] = niveau
    ELSE 0

\* the rank of a subject in the matieres_obligatoires of the group's grade level
SubjectRank(nom, matiere) ==
    LET mo == config.curriculum[LevelRank(config.groupes_eleves[GroupRank(nom)].niveau)][2]
    IN  CHOOSE k \in 1..Len(mo) : mo[k][1] = matiere

Instances(nom, matiere) ==
    {i \in 1..Len(cours_a_planifier) :
        cours_a_planifier[i][1] = nom /\ cours_a_planifier[i][2] = matiere}

--------------------------------------------------------------------------
(* Agreement of the encoder and of verifier_solution *)

\* the valuation satisfies the constraints C1-C4 that the encoder emitted
Conforms == Satisfies(valuation, model)

\* C13: when the configuration passes validate_config and every course has at least one
\* candidate, verifier_solution returns True on the schedule decoded from any valuation
\* that satisfies the emitted constraints C1-C4.
C13_VerifierAcceptsEncoding ==
    (Finished /\ values_read /\ validate_config(config) = <<>> /\ SansCandidat = {}
        /\ Conforms)
        => (verdict.computed /\ verdict.is_valid)

\* a schedule of two courses decoded from a conforming valuation and accepted
C13_Witness ==
    /\ Finished
    /\ values_read
    /\ validate_config(config) = <<>>
    /\ SansCandidat = {}
    /\ Conforms
    /\ Cardinality(valuation) >= 2
    /\ Cardinality(Positions) >= 2
    /\ verdict.computed
    /\ verdict.is_valid

====
